---------------------------- MODULE Spec2Model ----------------------------
(***************************************************************************)
(* fsftosh.py: an FSF parameter file is parsed into a dictionary, the     *)
(* brain-reference geometry is computed, the list of shell commands is    *)
(* generated and the script is written.                                   *)
(*                                                                         *)
(* Text.  A Python str is a sequence of fragments (TLA+ strings).  A      *)
(* value read from the FSF file is a sequence of one-character fragments; *)
(* the literal pieces of an f-string (the text between two {...}) are one *)
(* fragment each.  Concatenation is \o.                                    *)
(*                                                                         *)
(* Numbers.  A Python float is the exact rational [n, d] (d > 0, lowest   *)
(* terms) with kind "float"; a Python int has kind "int" and d = 1.  The  *)
(* inputs are decimal literals and power-of-two sampling factors, on      *)
(* which binary floating point and exact arithmetic agree.                *)
(***************************************************************************)
EXTENDS Integers, Sequences, FiniteSets, TLC

VARIABLES pc, fsf, params, geom, cmds, script, script0, idx, err

vars == <<pc, fsf, params, geom, cmds, script, script0, idx, err>>

---------------------------------------------------------------------------
(* Text helpers                                                            *)

Range(s) == {s[i] : i \in 1..Len(s)}

Digits == {"0", "1", "2", "3", "4", "5", "6", "7", "8", "9"}

DigitVal(c) ==
    CASE c = "0" -> 0 [] c = "1" -> 1 [] c = "2" -> 2 [] c = "3" -> 3
      [] c = "4" -> 4 [] c = "5" -> 5 [] c = "6" -> 6 [] c = "7" -> 7
      [] c = "8" -> 8 [] c = "9" -> 9

DigitChar(k) ==
    CASE k = 0 -> "0" [] k = 1 -> "1" [] k = 2 -> "2" [] k = 3 -> "3"
      [] k = 4 -> "4" [] k = 5 -> "5" [] k = 6 -> "6" [] k = 7 -> "7"
      [] k = 8 -> "8" [] k = 9 -> "9"

Whitespace == {" ", "\t"}

\* str.strip(): leading and trailing whitespace removed
RECURSIVE LStrip(_)
LStrip(s) ==
    IF s # <<>> /\ Head(s) \in Whitespace THEN LStrip(Tail(s)) ELSE s

RECURSIVE RStrip(_)
RStrip(s) ==
    IF s # <<>> /\ s[Len(s)] \in Whitespace
    THEN RStrip(SubSeq(s, 1, Len(s) - 1))
    ELSE s

Strip(s) == RStrip(LStrip(s))

LowerChar(c) ==
    CASE c = "E" -> "e" [] c = "P" -> "p" [] c = "I" -> "i" [] c = "G" -> "g"
      [] c = "X" -> "x" [] c = "Y" -> "y" [] c = "Z" -> "z" [] c = "S" -> "s"
      [] c = "N" -> "n" [] c = "R" -> "r" [] c = "M" -> "m"
      [] OTHER -> c

\* str.lower(), on the letters the compared words are made of
Lower(s) == [i \in 1..Len(s) |-> LowerChar(s[i])]

---------------------------------------------------------------------------
(* Numbers                                                                 *)

Abs(x) == IF x < 0 THEN -x ELSE x

RECURSIVE Gcd(_, _)
Gcd(a, b) == IF b = 0 THEN a ELSE Gcd(b, a % b)

RECURSIVE Pow10(_)
Pow10(k) == IF k = 0 THEN 1 ELSE 10 * Pow10(k - 1)

\* the rational n/d as a float value, in lowest terms with d > 0
PyFloat(n, d) ==
    LET s == IF d < 0 THEN -1 ELSE 1
        g == Gcd(Abs(n), Abs(d))
    IN  [n |-> s * (n \div g), d |-> s * (d \div g), kind |-> "float"]

PyInt(n) == [n |-> n, d |-> 1, kind |-> "int"]

FDiv(a, b) == PyFloat(a.n * b.d, a.d * b.n)

FMul(a, b) == PyFloat(a.n * b.n, a.d * b.d)

IsZero(a) == a.n = 0

NumEq(a, b) == a.n * b.d = b.n * a.d

RECURSIVE DigitsVal(_)
DigitsVal(s) ==
    IF s = <<>> THEN 0
    ELSE 10 * DigitsVal(SubSeq(s, 1, Len(s) - 1)) + DigitVal(s[Len(s)])

HasSign(s) == s # <<>> /\ Head(s) \in {"+", "-"}

Unsigned(s) == IF HasSign(s) THEN Tail(s) ELSE s

SignOf(s) == IF s # <<>> /\ Head(s) = "-" THEN -1 ELSE 1

\* int(str): an optional sign and one or more decimal digits
IntOk(s) ==
    LET u == Unsigned(s)
    IN  u # <<>> /\ Range(u) \subseteq Digits

DotAt(u) ==
    IF \E i \in 1..Len(u) : u[i] = "."
    THEN CHOOSE i \in 1..Len(u) : u[i] = "." /\ \A j \in 1..(i - 1) : u[j] # "."
    ELSE 0

\* float(str): an optional sign, decimal digits with at most one point, and
\* at least one digit
FloatOk(s) ==
    LET u == Unsigned(s)
        p == DotAt(u)
        ds == IF p = 0 THEN u
              ELSE SubSeq(u, 1, p - 1) \o SubSeq(u, p + 1, Len(u))
    IN  ds # <<>> /\ Range(ds) \subseteq Digits

FloatVal(s) ==
    LET u == Unsigned(s)
        p == DotAt(u)
        ip == IF p = 0 THEN u ELSE SubSeq(u, 1, p - 1)
        fp == IF p = 0 THEN <<>> ELSE SubSeq(u, p + 1, Len(u))
    IN  PyFloat(SignOf(s) * DigitsVal(ip \o fp), Pow10(Len(fp)))

\* to the nearest integer, a tie away from zero
RoundHalfAway(a) ==
    LET m == Abs(a.n)
        q == m \div a.d
        r == m % a.d
        k == IF 2 * r >= a.d THEN q + 1 ELSE q
    IN  PyInt(IF a.n < 0 THEN -k ELSE k)

\* round(float): to the nearest integer, a tie to the even neighbour
Round(a) ==
    LET q == a.n \div a.d
        r == a.n % a.d
    IN  PyInt(IF 2 * r < a.d THEN q
            ELSE IF 2 * r > a.d THEN q + 1
            ELSE IF q % 2 = 0 THEN q ELSE q + 1)

RECURSIVE NatStr(_)
NatStr(k) ==
    IF k < 10 THEN <<DigitChar(k)>>
    ELSE NatStr(k \div 10) \o <<DigitChar(k % 10)>>

\* str(int)
IntStr(k) == IF k < 0 THEN <<"-">> \o NatStr(-k) ELSE NatStr(k)

RECURSIVE FracDigits(_, _)
FracDigits(r, d) ==
    IF r = 0 THEN <<>>
    ELSE <<DigitChar((10 * r) \div d)>> \o FracDigits((10 * r) % d, d)

\* whether n/d has a finite decimal expansion
RECURSIVE Terminates(_)
Terminates(d) ==
    IF d = 1 THEN TRUE
    ELSE IF d % 2 = 0 THEN Terminates(d \div 2)
    ELSE IF d % 5 = 0 THEN Terminates(d \div 5)
    ELSE FALSE

\* the text an f-string gives a number: str(int), repr(float).  repr is the
\* finite decimal expansion; a value without one (not produced by the inputs
\* drawn here) is left as the opaque fragment "<repr>"
NumStr(a) ==
    IF a.kind = "int" THEN IntStr(a.n)
    ELSE LET m == Abs(a.n)
             ip == m \div a.d
             r == m % a.d
         IN  (IF a.n < 0 THEN <<"-">> ELSE <<>>) \o NatStr(ip) \o <<".">>
                 \o (IF r = 0 THEN <<"0">>
                     ELSE IF Terminates(a.d) THEN FracDigits(r, a.d)
                     ELSE <<"<repr>">>)

---------------------------------------------------------------------------
(* The parameter dictionary                                                *)

\* dict.get(key, default); a key is one fragment
Get(p, key, default) == IF <<key>> \in DOMAIN p THEN p[<<key>>] ELSE default

FloatKeys ==
    {"inNx", "inNy", "inNz", "vcX", "vcY", "vcZ",
     "outsize_dx", "outsize_dy", "outsize_dz", "slcsampfactor"}

IntKeys == {"outsize_nx", "outsize_ny", "outsize_nz"}

\* the selected axis: "x", "y", and "z" for every other value
Axis(p) ==
    LET slcselect == Get(p, "slcselect", <<"z">>)
    IN  IF Lower(slcselect) = <<"x">> THEN "x"
        ELSE IF Lower(slcselect) = <<"y">> THEN "y"
        ELSE "z"

\* float(...) or int(...) of a present value raises ValueError
BrainRefValueError(p) ==
    \/ \E k \in FloatKeys : <<k>> \in DOMAIN p /\ ~FloatOk(p[<<k>>])
    \/ \E k \in IntKeys : <<k>> \in DOMAIN p /\ ~IntOk(p[<<k>>])

\* the two divisions of the selected branch raise ZeroDivisionError
BrainRefZeroDivision(p) ==
    LET a == Axis(p)
        outsize_d ==
            FloatVal(Get(p, IF a = "x" THEN "outsize_dx"
                            ELSE IF a = "y" THEN "outsize_dy"
                            ELSE "outsize_dz", <<"1">>))
        slcsampfactor == FloatVal(Get(p, "slcsampfactor", <<"1">>))
    IN  IsZero(slcsampfactor) \/ IsZero(outsize_d)

BrainRefError(p) ==
    IF BrainRefValueError(p) THEN "ValueError"
    ELSE IF BrainRefZeroDivision(p) THEN "ZeroDivisionError"
    ELSE "none"

\* the tuple compute_brain_ref returns, when it raises nothing
compute_brain_ref(p) ==
    LET inNx == FloatVal(Get(p, "inNx", <<"0">>))
        inNy == FloatVal(Get(p, "inNy", <<"0">>))
        inNz == FloatVal(Get(p, "inNz", <<"0">>))
        inNt == Get(p, "inNt", <<"1">>)
        vcX == FloatVal(Get(p, "vcX", <<"1">>))
        vcY == FloatVal(Get(p, "vcY", <<"1">>))
        vcZ == FloatVal(Get(p, "vcZ", <<"1">>))
        outsize_dx == FloatVal(Get(p, "outsize_dx", <<"1">>))
        outsize_dy == FloatVal(Get(p, "outsize_dy", <<"1">>))
        outsize_dz == FloatVal(Get(p, "outsize_dz", <<"1">>))
        slcsampfactor == FloatVal(Get(p, "slcsampfactor", <<"1">>))
        a == Axis(p)
        newpixdim1 == IF a = "x" THEN FDiv(outsize_dx, slcsampfactor) ELSE vcX
        newpixdim2 == IF a = "y" THEN FDiv(outsize_dy, slcsampfactor) ELSE vcY
        newpixdim3 == IF a = "z" THEN FDiv(outsize_dz, slcsampfactor) ELSE vcZ
    IN  [newdim1 |-> IF a = "x" THEN Round(FDiv(FMul(inNx, vcX), newpixdim1))
                     ELSE inNx,
         newdim2 |-> IF a = "y" THEN Round(FDiv(FMul(inNy, vcY), newpixdim2))
                     ELSE inNy,
         newdim3 |-> IF a = "z" THEN Round(FDiv(FMul(inNz, vcZ), newpixdim3))
                     ELSE inNz,
         inNt |-> inNt,
         newpixdim1 |-> newpixdim1,
         newpixdim2 |-> newpixdim2,
         newpixdim3 |-> newpixdim3,
         pixdim4 |-> Get(p, "inNt", <<"1">>)]

---------------------------------------------------------------------------
(* generate_shell_commands, stage by stage                                 *)

DefaultFSLDIR ==
    <<"/", "u", "s", "r", "/", "l", "o", "c", "a", "l", "/", "f", "s", "l">>

DefaultOut == <<".", "/", "s", "i", "m", "d", "i", "r">>

FSLDIR(p) == Get(p, "FSLDIR", DefaultFSLDIR)

POSSUMDIR(p) == Get(p, "POSSUMDIR", FSLDIR(p))

Out(p) == Get(p, "out", DefaultOut)

Sp == <<" ">>

SetupCmds(p) == << <<"mkdir -p ">> \o Out(p) >>

BrainRefCmds(p, g) ==
    << FSLDIR(p) \o <<"/bin/fslcreatehd ">>
         \o NumStr(g.newdim1) \o Sp \o NumStr(g.newdim2) \o Sp
         \o NumStr(g.newdim3) \o Sp \o g.inNt \o Sp
         \o NumStr(g.newpixdim1) \o Sp \o NumStr(g.newpixdim2) \o Sp
         \o NumStr(g.newpixdim3) \o Sp \o g.pixdim4
         \o <<" 0 0 0 16 ">> \o Out(p) \o <<"/brainref">>,
       FSLDIR(p) \o <<"/bin/flirt -in ">> \o Get(p, "obvol", <<>>)
         \o <<" -ref ">> \o Out(p) \o <<"/brainref -applyxfm -out ">>
         \o Out(p) \o <<"/brain">> >>

\* if path: cmds.append(f"cp {path} {out}/<name>")
CopyCmd(p, key, dest) ==
    IF Get(p, key, <<>>) # <<>>
    THEN << <<"cp ">> \o Get(p, key, <<>>) \o Sp \o Out(p) \o <<dest>> >>
    ELSE <<>>

\* if path: cmds.append(f"{FSLDIR}/bin/flirt -in {path} -ref ... -out {out}/<name>")
RegisterCmd(p, key, dest) ==
    IF Get(p, key, <<>>) # <<>>
    THEN << FSLDIR(p) \o <<"/bin/flirt -in ">> \o Get(p, key, <<>>)
              \o <<" -ref ">> \o Out(p) \o <<"/brainref -applyxfm -out ">>
              \o Out(p) \o <<dest>> >>
    ELSE <<>>

AuxCopyCmdsSwapped(p) ==
    CopyCmd(p, "mrpar", "/MRpar") \o CopyCmd(p, "mot", "/motion")
        \o CopyCmd(p, "slcprof", "/slcprof")

AuxCopyCmds(p) ==
    CopyCmd(p, "mrpar", "/MRpar") \o CopyCmd(p, "slcprof", "/slcprof")
        \o CopyCmd(p, "mot", "/motion")

ActivationCmds(p) ==
    RegisterCmd(p, "act1", "/T2") \o CopyCmd(p, "act2", "/T2timecourse")

B0ScaleCmd(p) ==
    << FSLDIR(p) \o <<"/bin/fslmaths ">> \o Out(p)
         \o <<"/b0z_dz.nii.gz -mul ">>
         \o Get(p, "b0fieldstrength", <<"1", ".", "5">>)
         \o <<" -div 1000000 ">> \o Out(p) \o <<"/b0z_dz.nii.gz">> >>

B0IsPpmNoDefault(p) == Lower(Get(p, "b0units", <<>>)) = <<"p", "p", "m">>

B0IsPpm(p) == Lower(Get(p, "b0units", <<"p", "p", "m">>)) = <<"p", "p", "m">>

B0CmdsScaleUngated(p) ==
    RegisterCmd(p, "b0f", "/b0newref")
        \o (IF Get(p, "b0f", <<>>) # <<>>
            THEN << FSLDIR(p) \o <<"/bin/fslroi ">> \o Out(p)
                      \o <<"/b0newref ">> \o Out(p)
                      \o <<"/b0z_dz.nii.gz 0 1">> >>
            ELSE <<>>)
        \o (IF B0IsPpm(p) THEN B0ScaleCmd(p) ELSE <<>>)

B0Cmds(p) ==
    IF Get(p, "b0f", <<>>) # <<>>
    THEN RegisterCmd(p, "b0f", "/b0newref")
           \o << FSLDIR(p) \o <<"/bin/fslroi ">> \o Out(p)
                   \o <<"/b0newref ">> \o Out(p)
                   \o <<"/b0z_dz.nii.gz 0 1">> >>
           \o (IF B0IsPpm(p) THEN B0ScaleCmd(p) ELSE <<>>)
    ELSE <<>>

Epi == <<"e", "p", "i">>

Ge == <<"g", "e">>

DefaultSize == <<"6", "4">>

DefaultVoxel == <<"4", ".", "0">>

SeqType(p) == Get(p, "seqtype", Epi)

IsStandardCaseSensitive(p) == SeqType(p) \in {Epi, Ge}

\* seqtype.lower() in ["epi", "ge"]
IsStandard(p) == Lower(SeqType(p)) \in {Epi, Ge}

PulseCmd(p, g) ==
    LET plus == Get(p, "plus", <<"+">>)
        slcselect == Get(p, "slcselect", <<"z">>)
    IN  POSSUMDIR(p) \o <<"/bin/pulse -i ">> \o Out(p) \o <<"/brain -o ">>
          \o Out(p) \o <<"/pulse ">>
          \o <<"--seq=">> \o SeqType(p)
          \o <<" --te=">> \o Get(p, "te", <<"0", ".", "0", "3">>)
          \o <<" --tr=">> \o Get(p, "tr", <<"3">>) \o Sp
          \o (IF Lower(SeqType(p)) = Epi
              THEN <<"--trslc=">> \o Get(p, "trslc", <<"0", ".", "1", "2">>) \o Sp
              ELSE <<>>)
          \o <<"--nx=">> \o Get(p, "outsize_nx", DefaultSize)
          \o <<" --ny=">> \o Get(p, "outsize_ny", DefaultSize) \o Sp
          \o <<"--numslc=">> \o Get(p, "outsize_nz", <<"1">>)
          \o <<" --dx=">> \o Get(p, "outsize_dx", DefaultVoxel) \o Sp
          \o <<"--dy=">> \o Get(p, "outsize_dy", DefaultVoxel)
          \o <<" --slcthk=">> \o NumStr(g.newpixdim3) \o Sp
          \o <<"--numvol=">> \o Get(p, "numvol", <<"1">>)
          \o <<" --zstart=0 --bw=">>
          \o Get(p, "bw", <<"1", "0", "0", "0", "0", "0">>) \o Sp
          \o <<"--readdir=">> \o Get(p, "readgrad", <<"x">>) \o plus
          \o <<" --phasedir=">> \o Get(p, "phencode", <<"y">>) \o plus
          \o <<" --slcdir=">> \o slcselect \o plus \o Sp
          \o <<"--maxG=">> \o Get(p, "maxG", <<"0", ".", "0", "5", "5">>)
          \o <<" --riset=">>
          \o Get(p, "riseT", <<"0", ".", "0", "0", "0", "2", "2">>)
          \o <<" -v">>
          \o <<" >> ">> \o Out(p) \o <<"/possum.log 2>&1">>

PulseExts == << <<>>, <<".info">>, <<".readme">>, <<".posx">>, <<".posy">>,
                <<".posz">>, <<".com">> >>

CustomPulseCmds(p) ==
    LET cuspulse == Get(p, "cuspulse", <<>>)
    IN  IF cuspulse # <<>>
        THEN [i \in 1..Len(PulseExts) |->
                <<"cp ">> \o cuspulse \o PulseExts[i] \o Sp \o Out(p)
                    \o <<"/pulse">> \o PulseExts[i]]
        ELSE <<>>

PulseCmds(p, g) ==
    IF IsStandard(p) THEN <<PulseCmd(p, g)>> ELSE CustomPulseCmds(p)

NoiseLine(p) ==
    IF Lower(Get(p, "noiseunits", <<"s", "i", "g", "m", "a">>)) = <<"s", "n", "r">>
    THEN <<"snr ">> \o Get(p, "noisesnr", <<"1", "0">>)
    ELSE <<"sigma ">> \o Get(p, "noisesigma", <<"0">>)

NoiseOnUnlessZero(p) == Get(p, "noise_yn", <<"0">>) # <<"0">>

\* noise_yn == "1"
NoiseOn(p) == Get(p, "noise_yn", <<"0">>) = <<"1">>

NoiseCmds(p) ==
    IF NoiseOn(p)
    THEN << <<"echo \"">> \o NoiseLine(p) \o <<"\" > ">> \o Out(p)
              \o <<"/noise">> >>
    ELSE <<>>

FinalCmds(p) ==
    << POSSUMDIR(p) \o <<"/bin/possumX ">> \o Out(p)
         \o <<" -n ">> \o Get(p, "numproc", <<"1">>)
         \o <<" -t ">> \o Get(p, "proctime", <<"0">>)
         \o <<" -s ">> \o Get(p, "segs", <<"1", "0", "0", "0", "0">>)
         \o <<" >> ">> \o Out(p) \o <<"/possum.log 2>&1">>,
       <<"echo 'POSSUM setup file generated.' > ">> \o Out(p)
         \o <<"/possum.fsf">> >>

\* the list generate_shell_commands returns, when compute_brain_ref raises nothing
generate_shell_commands(p) ==
    LET g == compute_brain_ref(p)
    IN  SetupCmds(p) \o BrainRefCmds(p, g) \o AuxCopyCmds(p)
          \o ActivationCmds(p) \o B0Cmds(p) \o PulseCmds(p, g)
          \o NoiseCmds(p) \o FinalCmds(p)

---------------------------------------------------------------------------
(* parse_fsf                                                               *)
(* A line of the FSF file is [match |-> TRUE, key, value] when the regular *)
(* expression finds `set entries($w,KEY) "VALUE"` in it, with the two     *)
(* groups as matched, and [match |-> FALSE] when it does not.             *)

RECURSIVE ParseLines(_, _)
ParseLines(lines, d) ==
    IF lines = <<>> THEN d
    ELSE LET l == Head(lines)
             key == Strip(l.key)
             value == Strip(l.value)
         IN  ParseLines(Tail(lines),
                 IF l.match
                 THEN [k \in DOMAIN d \cup {key} |->
                          IF k = key THEN value ELSE d[k]]
                 ELSE d)

parse_fsf(file) == ParseLines(file.lines, <<>>)

---------------------------------------------------------------------------
(* main                                                                    *)

NoScript == [exists |-> FALSE, text |-> <<>>]

\* outf.write("#!/bin/sh\n\n")
HeaderText == <<"#!/bin/sh", "\n", "\n">>

CmdTextUnterminated(cmd) == cmd

\* outf.write(cmd + "\n")
CmdText(cmd) == cmd \o <<"\n">>

\* params = parse_fsf(args.fsf_file); open(fsf_filename, 'r') may raise
ParseFsf ==
    /\ pc = "parse"
    /\ \/ /\ fsf.readable
          /\ params' = parse_fsf(fsf)
          /\ pc' = "generate"
          /\ err' = err
       \/ /\ ~fsf.readable
          /\ pc' = "failed"
          /\ err' = "OSError"
          /\ params' = params
    /\ UNCHANGED <<fsf, geom, cmds, script, script0, idx>>

GenerateAfterOpen ==
    /\ pc = "generate"
    /\ \/ /\ BrainRefError(params) = "none"
          /\ geom' = compute_brain_ref(params)
          /\ cmds' = generate_shell_commands(params)
          /\ pc' = "open"
          /\ UNCHANGED <<err, script>>
       \/ /\ BrainRefError(params) # "none"
          /\ err' = BrainRefError(params)
          /\ pc' = "failed"
          /\ script' = [exists |-> TRUE, text |-> <<>>]
          /\ UNCHANGED <<geom, cmds>>
    /\ UNCHANGED <<fsf, params, script0, idx>>

\* cmds = generate_shell_commands(params)
Generate ==
    /\ pc = "generate"
    /\ \/ /\ BrainRefError(params) = "none"
          /\ geom' = compute_brain_ref(params)
          /\ cmds' = generate_shell_commands(params)
          /\ pc' = "open"
          /\ err' = err
       \/ /\ BrainRefError(params) # "none"
          /\ err' = BrainRefError(params)
          /\ pc' = "failed"
          /\ UNCHANGED <<geom, cmds>>
    /\ UNCHANGED <<fsf, params, script, script0, idx>>

\* with open(args.output_shell, 'w') as outf: creates or truncates the file,
\* or raises and leaves it alone
OpenOutput ==
    /\ pc = "open"
    /\ \/ /\ script' = [exists |-> TRUE, text |-> <<>>]
          /\ pc' = "header"
          /\ err' = err
       \/ /\ pc' = "failed"
          /\ err' = "OSError"
          /\ script' = script
    /\ UNCHANGED <<fsf, params, geom, cmds, script0, idx>>

WriteHeader ==
    /\ pc = "header"
    /\ script' = [script EXCEPT !.text = @ \o HeaderText]
    /\ idx' = 1
    /\ pc' = "write"
    /\ UNCHANGED <<fsf, params, geom, cmds, script0, err>>

\* for cmd in cmds: outf.write(cmd + "\n")
WriteCmd ==
    /\ pc = "write"
    /\ idx <= Len(cmds)
    /\ script' = [script EXCEPT !.text = @ \o CmdText(cmds[idx])]
    /\ idx' = idx + 1
    /\ UNCHANGED <<pc, fsf, params, geom, cmds, script0, err>>

\* the with block ends and the confirmation is printed
Finish ==
    /\ pc = "write"
    /\ idx > Len(cmds)
    /\ pc' = "done"
    /\ UNCHANGED <<fsf, params, geom, cmds, script, script0, idx, err>>

Next ==
    \/ ParseFsf
    \/ Generate
    \/ OpenOutput
    \/ WriteHeader
    \/ WriteCmd
    \/ Finish

---------------------------------------------------------------------------
(* Inputs: the FSF files and the destination files the runs start from     *)

MaxJunk == 1

MaxOld == 1

ABSENT == <<"<absent>">>

KeyOrder ==
    <<"out", "obvol", "inNx", "inNy", "inNz", "vcX", "vcY", "vcZ",
      "outsize_nz", "outsize_dx", "outsize_dy", "outsize_dz",
      "slcsampfactor", "slcselect", "mrpar", "slcprof", "mot", "act1",
      "act2", "b0f", "b0units", "seqtype", "cuspulse", "noise_yn",
      "noiseunits">>

Pad(s, pad) == IF pad THEN <<" ">> \o s \o <<" ", "\t">> ELSE s

RECURSIVE EntryLines(_, _, _)
EntryLines(keys, c, pad) ==
    IF keys = <<>> THEN <<>>
    ELSE (IF Head(keys) \in DOMAIN c /\ c[Head(keys)] # ABSENT
          THEN << [match |-> TRUE, key |-> Pad(<<Head(keys)>>, pad),
                   value |-> Pad(c[Head(keys)], pad)] >>
          ELSE <<>>)
         \o EntryLines(Tail(keys), c, pad)

JunkLine == [match |-> FALSE, key |-> <<>>, value |-> <<>>]

FsfFile(c, junk, pad, readable) ==
    [readable |-> readable,
     lines |-> [i \in 1..junk |-> JunkLine] \o EntryLines(KeyOrder, c, pad)]

OldScript(k) ==
    [exists |-> TRUE,
     text |-> [i \in 1..(2 * k) |-> IF i % 2 = 1 THEN "old line" ELSE "\n"]]

InitWith(Choices, Junks, Pads, Olds) ==
    /\ pc = "parse"
    /\ \E c \in Choices, j \in Junks, pad \in Pads, r \in BOOLEAN :
          fsf = FsfFile(c, j, pad, r)
    /\ params = <<>>
    /\ geom = <<>>
    /\ cmds = <<>>
    /\ script0 \in Olds
    /\ script = script0
    /\ idx = 0
    /\ err = "none"

AllOlds == {NoScript} \cup {OldScript(k) : k \in 0..MaxOld}

MainChoices ==
    [inNz : {<<"3", "0">>, <<"3", "x">>},
     vcZ : {<<"3", ".", "0">>},
     outsize_dz : {<<"4", ".", "0">>},
     slcsampfactor : {ABSENT, <<"0">>},
     mrpar : {ABSENT, <<"m">>},
     seqtype : {ABSENT, <<"c", "u", "s">>},
     cuspulse : {<<"c">>},
     noise_yn : {ABSENT, <<"1">>}]

Init == InitWith(MainChoices, 0..MaxJunk, BOOLEAN, AllOlds)

Spec == Init /\ [][Next]_vars

\* numeric inputs: every axis, zero and malformed values, a tie of round
GeomChoices ==
    [inNx : {<<"6", "4">>},
     inNy : {<<"6", "4", ".", "0">>},
     inNz : {<<"3", "0">>, <<"3", "x">>},
     vcX : {<<"3", ".", "0">>},
     vcY : {<<"3">>},
     vcZ : {ABSENT, <<"3", ".", "0">>},
     outsize_nz : {ABSENT, <<"3", "0">>, <<"3", "0", ".", "0">>},
     outsize_dx : {<<"4", ".", "0">>, <<"0">>},
     outsize_dy : {ABSENT, <<"4">>},
     outsize_dz : {<<"4", ".", "0">>, <<"0">>, <<"1", ".", "5">>},
     slcsampfactor : {ABSENT, <<"2">>, <<"0">>, <<"0", ".", "5">>},
     slcselect : {ABSENT, <<"x">>, <<"Y">>, <<"z">>, <<"q">>},
     seqtype : {ABSENT, <<"g", "e">>}]

InitGeom == InitWith(GeomChoices, {MaxJunk}, {TRUE}, {NoScript})

SpecGeom == InitGeom /\ [][Next]_vars

Merge(a, b) ==
    [k \in DOMAIN a \cup DOMAIN b |-> IF k \in DOMAIN a THEN a[k] ELSE b[k]]

FileChoices ==
    [mrpar : {ABSENT, <<>>, <<"m">>},
     slcprof : {ABSENT, <<"s">>},
     mot : {ABSENT, <<"t">>},
     act1 : {ABSENT, <<"a">>},
     act2 : {ABSENT, <<"b">>}]

B0Choices ==
    {[b0f |-> ABSENT, b0units |-> ABSENT],
     [b0f |-> ABSENT, b0units |-> <<"p", "p", "m">>],
     [b0f |-> <<>>, b0units |-> ABSENT],
     [b0f |-> <<"f">>, b0units |-> ABSENT],
     [b0f |-> <<"f">>, b0units |-> <<"P", "P", "M">>],
     [b0f |-> <<"f">>, b0units |-> <<"h", "z">>]}

SeqChoices ==
    {[seqtype |-> ABSENT, cuspulse |-> <<"c">>],
     [seqtype |-> <<"E", "P", "I">>, cuspulse |-> ABSENT],
     [seqtype |-> <<"g", "E">>, cuspulse |-> <<"c">>],
     [seqtype |-> <<"c", "u", "s">>, cuspulse |-> <<"c">>],
     [seqtype |-> <<"c", "u", "s">>, cuspulse |-> ABSENT],
     [seqtype |-> <<"e", "p">>, cuspulse |-> <<>>]}

NoiseChoices ==
    {[noise_yn |-> ABSENT, noiseunits |-> <<"s", "n", "r">>],
     [noise_yn |-> <<"1">>, noiseunits |-> ABSENT],
     [noise_yn |-> <<"1">>, noiseunits |-> <<"S", "N", "R">>],
     [noise_yn |-> <<"1">>, noiseunits |-> <<"s", "n">>],
     [noise_yn |-> <<"0">>, noiseunits |-> <<"s", "n", "r">>],
     [noise_yn |-> <<"1", "1">>, noiseunits |-> <<"s", "n", "r">>]}

PipeBase ==
    [out |-> <<"d">>, obvol |-> <<"o">>, inNz |-> <<"3", "0">>,
     slcselect |-> <<"y">>]

\* stage inputs: every optional file, unit, sequence type and noise mode,
\* and one parameter set on which generation raises
PipeChoices ==
    {Merge(Merge(f, b), Merge(Merge(s, n), PipeBase)) :
        f \in FileChoices, b \in B0Choices, s \in SeqChoices, n \in NoiseChoices}
    \cup {[inNz |-> <<"3", "x">>, mrpar |-> <<"m">>]}

InitPipe == InitWith(PipeChoices, {MaxJunk}, {TRUE}, {NoScript})

SpecPipe == InitPipe /\ [][Next]_vars

---------------------------------------------------------------------------
(* Reading a command list                                                  *)

Last(c) == c[Len(c)]

Has(c, frag) == frag \in Range(c)

UpperOf(ch) ==
    CASE ch = "e" -> "E" [] ch = "p" -> "P" [] ch = "i" -> "I"
      [] ch = "g" -> "G" [] ch = "m" -> "M" [] ch = "s" -> "S"
      [] ch = "n" -> "N" [] ch = "r" -> "R" [] ch = "x" -> "X"
      [] ch = "y" -> "Y" [] ch = "z" -> "Z"
      [] OTHER -> ch

\* s spells the lower-case word w in some mix of upper and lower case
Spells(s, w) ==
    /\ Len(s) = Len(w)
    /\ \A i \in 1..Len(w) : s[i] \in {w[i], UpperOf(w[i])}

IsCopy(c) == c[1] = "cp "

IsRegistration(c) == Has(c, "/bin/flirt -in ") /\ Has(c, " -ref ")

IsPulseGen(c) == Has(c, "/bin/pulse -i ")

\* the place of a command in the stage order, 0 when it is none of them
Rank(c) ==
    CASE c[1] = "mkdir -p " -> 1
      [] Has(c, "/bin/fslcreatehd ") /\ Last(c) = "/brainref" -> 2
      [] IsRegistration(c) /\ Last(c) = "/brain" -> 3
      [] IsCopy(c) /\ Last(c) = "/MRpar" -> 4
      [] IsCopy(c) /\ Last(c) = "/slcprof" -> 5
      [] IsCopy(c) /\ Last(c) = "/motion" -> 6
      [] IsRegistration(c) /\ Last(c) = "/T2" -> 7
      [] IsCopy(c) /\ Last(c) = "/T2timecourse" -> 8
      [] IsRegistration(c) /\ Last(c) = "/b0newref" -> 9
      [] Has(c, "/bin/fslroi ") /\ Last(c) = "/b0z_dz.nii.gz 0 1" -> 10
      [] Has(c, "/bin/fslmaths ") /\ Has(c, " -div 1000000 ") -> 11
      [] IsPulseGen(c) /\ Last(c) = "/possum.log 2>&1" -> 12
      [] IsCopy(c) /\ Last(c) = "/pulse" -> 12
      [] IsCopy(c) /\ Last(c) = ".info" -> 13
      [] IsCopy(c) /\ Last(c) = ".readme" -> 14
      [] IsCopy(c) /\ Last(c) = ".posx" -> 15
      [] IsCopy(c) /\ Last(c) = ".posy" -> 16
      [] IsCopy(c) /\ Last(c) = ".posz" -> 17
      [] IsCopy(c) /\ Last(c) = ".com" -> 18
      [] c[1] = "echo \"" /\ Last(c) = "/noise" -> 19
      [] Has(c, "/bin/possumX ") /\ Last(c) = "/possum.log 2>&1" -> 20
      [] c[1] = "echo 'POSSUM setup file generated.' > "
            /\ Last(c) = "/possum.fsf" -> 21
      [] OTHER -> 0

RanksIn(cs) == {Rank(cs[i]) : i \in 1..Len(cs)}

Present(p, key) == Get(p, key, <<>>) # <<>>

\* generate_shell_commands has just returned cmds
Returned == pc = "open"

---------------------------------------------------------------------------
(* C1: every generated command list begins with mkdir, fslcreatehd        *)
(* brainref and the flirt of obvol, ends with possumX and the possum.fsf  *)
(* marker, and has its optional commands in between in stage order        *)
(* (MRpar, slcprof, motion, T2 registration, T2timecourse, B0, pulse,     *)
(* noise): the ranks of the commands increase strictly from 1, 2, 3 to    *)
(* 20, 21, so nothing precedes mkdir and no registration precedes the     *)
(* creation of brainref.                                                   *)
C1_FixedShape ==
    Returned =>
        LET n == Len(cmds)
        IN  /\ n >= 5
            /\ Rank(cmds[1]) = 1 /\ Rank(cmds[2]) = 2 /\ Rank(cmds[3]) = 3
            /\ Rank(cmds[n - 1]) = 20 /\ Rank(cmds[n]) = 21
            /\ \A i \in 1..(n - 1) : Rank(cmds[i]) < Rank(cmds[i + 1])
            /\ \A i \in 1..n : IsRegistration(cmds[i]) => i > 2

C1_Witness ==
    /\ Returned
    /\ {4, 5, 6, 7, 8, 9, 10, 11, 12, 19} \subseteq RanksIn(cmds)

---------------------------------------------------------------------------
(* C2: for each of mrpar, slcprof, mot, act1, act2, b0f that is non-empty, *)
(* the command list of the same parameters with the key absent, and with  *)
(* the key empty, is the generated list with exactly that key's commands  *)
(* deleted, all others identical and in the same order.                   *)

OptionalKeys == {"mrpar", "slcprof", "mot", "act1", "act2", "b0f"}

AssocRanks(key) ==
    CASE key = "mrpar" -> {4}
      [] key = "slcprof" -> {5}
      [] key = "mot" -> {6}
      [] key = "act1" -> {7}
      [] key = "act2" -> {8}
      [] key = "b0f" -> {9, 10, 11}

Without(p, key) == [k \in DOMAIN p \ {<<key>>} |-> p[k]]

WithEmpty(p, key) == [k \in DOMAIN p \cup {<<key>>} |-> IF k = <<key>> THEN <<>> ELSE p[k]]

Deleted(cs, key) ==
    LET Keep(c) == Rank(c) \notin AssocRanks(key)
    IN  SelectSeq(cs, Keep)

C2_AbsenceDeletesOnlyOwn ==
    Returned =>
        \A key \in OptionalKeys :
            Present(params, key) =>
                /\ Len(Deleted(cmds, key)) < Len(cmds)
                /\ generate_shell_commands(Without(params, key))
                       = Deleted(cmds, key)
                /\ generate_shell_commands(WithEmpty(params, key))
                       = Deleted(cmds, key)

C2_Witness ==
    /\ Returned
    /\ \A key \in OptionalKeys : Present(params, key)
    /\ Get(params, "b0units", <<>>) = <<"P", "P", "M">>

---------------------------------------------------------------------------
(* C5: the pulse stage splits on seqtype, case-insensitively: "epi" gives *)
(* exactly one pulse-generation command, with a --trslc= argument; "ge"   *)
(* gives exactly one, without; any other value gives none, and one copy   *)
(* of each of the seven pulse files (base, .info, .readme, .posx, .posy,  *)
(* .posz, .com) when cuspulse is non-empty, and no such copy otherwise.   *)

PulseGens == {i \in 1..Len(cmds) : IsPulseGen(cmds[i])}

\* the copies whose destination is {out}/pulse{ext}
PulseCopies(ext) ==
    {i \in 1..Len(cmds) :
        /\ IsCopy(cmds[i])
        /\ \E j \in 1..Len(cmds[i]) :
              /\ cmds[i][j] = "/pulse"
              /\ SubSeq(cmds[i], j + 1, Len(cmds[i])) = ext}

AllPulseCopies == UNION {PulseCopies(PulseExts[k]) : k \in 1..Len(PulseExts)}

---------------------------------------------------------------------------
(* C6: the command list holds at most one write to the noise file: none   *)
(* unless noise_yn is exactly "1", and then exactly one, whose line is    *)
(* `snr <noisesnr>` when noiseunits spells "snr" in any case and          *)
(* `sigma <noisesigma>` for every other noiseunits, absent included.      *)

NoiseWrites == {i \in 1..Len(cmds) : Last(cmds[i]) = "/noise"}

Snr == <<"s", "n", "r">>

C6_NoiseWrite ==
    Returned =>
        LET noise_yn == Get(params, "noise_yn", <<"0">>)
            out == Get(params, "out", DefaultOut)
            snr == /\ <<"noiseunits">> \in DOMAIN params
                   /\ Spells(params[<<"noiseunits">>], Snr)
            line == IF snr
                    THEN <<"snr ">> \o Get(params, "noisesnr", <<"1", "0">>)
                    ELSE <<"sigma ">> \o Get(params, "noisesigma", <<"0">>)
        IN  /\ Cardinality(NoiseWrites) <= 1
            /\ noise_yn = <<"1">> =>
                  /\ Cardinality(NoiseWrites) = 1
                  /\ \A i \in NoiseWrites :
                        cmds[i] = <<"echo \"">> \o line \o <<"\" > ">>
                                      \o out \o <<"/noise">>
            /\ noise_yn # <<"1">> => NoiseWrites = {}

C6_Witness ==
    /\ Returned
    /\ Get(params, "noise_yn", <<"0">>) = <<"1">>
    /\ Get(params, "noiseunits", <<>>) = <<"S", "N", "R">>
    /\ NoiseWrites # {}

---------------------------------------------------------------------------
(* C9: when b0f is non-empty the list holds, one after the other, the     *)
(* registration of b0f against brainref, the extraction of one slice      *)
(* (0 1), and the in-place scaling by the field strength over 1000000     *)
(* exactly when b0units spells "ppm" in any case or is absent; no other   *)
(* command of the three kinds occurs; when b0f is empty or absent none of *)
(* the three occurs.                                                       *)

Ppm == <<"p", "p", "m">>

B0Idx == {i \in 1..Len(cmds) : Rank(cmds[i]) \in {9, 10, 11}}

C9_FieldInhomogeneity ==
    Returned =>
        LET b0f == Get(params, "b0f", <<>>)
            out == Get(params, "out", DefaultOut)
            scaled == \/ <<"b0units">> \notin DOMAIN params
                      \/ Spells(params[<<"b0units">>], Ppm)
        IN  /\ b0f = <<>> => B0Idx = {}
            /\ b0f # <<>> =>
                  \E i \in 1..Len(cmds) :
                     /\ B0Idx = IF scaled THEN {i, i + 1, i + 2} ELSE {i, i + 1}
                     /\ Rank(cmds[i]) = 9
                     /\ \E j \in 1..Len(cmds[i]) :
                           /\ cmds[i][j] = "/bin/flirt -in "
                           /\ SubSeq(cmds[i], j + 1, j + Len(b0f) + 1)
                                 = b0f \o <<" -ref ">>
                     /\ Rank(cmds[i + 1]) = 10
                     /\ scaled =>
                           /\ Rank(cmds[i + 2]) = 11
                           /\ Has(cmds[i + 2], "/b0z_dz.nii.gz -mul ")
                           /\ Last(cmds[i + 2]) = "/b0z_dz.nii.gz"

C9_Witness ==
    /\ Returned
    /\ Present(params, "b0f")
    /\ <<"b0units">> \notin DOMAIN params
    /\ Cardinality(B0Idx) = 3

---------------------------------------------------------------------------
(* C3: compute_brain_ref recomputes exactly the axis slcselect names      *)
(* ("x", "y" in any case, z otherwise): there the voxel size is the       *)
(* output voxel size over the sampling factor and the dimension is the    *)
(* input extent over the new voxel size rounded to the nearest integer,   *)
(* 22.5 giving 23 as in the example (dims 30, voxel 3, output voxel 4,    *)
(* factor 1); the other two axes return the input dimension and voxel.    *)

ClaimedAxis(p) ==
    IF <<"slcselect">> \notin DOMAIN p THEN "z"
    ELSE IF Spells(p[<<"slcselect">>], <<"x">>) THEN "x"
    ELSE IF Spells(p[<<"slcselect">>], <<"y">>) THEN "y"
    ELSE "z"

AxisKeys(a) ==
    CASE a = "x" -> [n |-> "inNx", vc |-> "vcX", d |-> "outsize_dx"]
      [] a = "y" -> [n |-> "inNy", vc |-> "vcY", d |-> "outsize_dy"]
      [] a = "z" -> [n |-> "inNz", vc |-> "vcZ", d |-> "outsize_dz"]

GeomDim(g, a) ==
    CASE a = "x" -> g.newdim1 [] a = "y" -> g.newdim2 [] a = "z" -> g.newdim3

GeomVoxel(g, a) ==
    CASE a = "x" -> g.newpixdim1 [] a = "y" -> g.newpixdim2
      [] a = "z" -> g.newpixdim3

C3_RecomputeOneAxis ==
    Returned =>
        \A a \in {"x", "y", "z"} :
            LET k == AxisKeys(a)
                inN == FloatVal(Get(params, k.n, <<"0">>))
                vc == FloatVal(Get(params, k.vc, <<"1">>))
                outd == FloatVal(Get(params, k.d, <<"1">>))
                f == FloatVal(Get(params, "slcsampfactor", <<"1">>))
                new_voxel == FDiv(outd, f)
            IN  IF a = ClaimedAxis(params)
                THEN /\ NumEq(GeomVoxel(geom, a), new_voxel)
                     /\ NumEq(GeomDim(geom, a),
                              RoundHalfAway(FDiv(FMul(inN, vc), new_voxel)))
                ELSE /\ NumEq(GeomVoxel(geom, a), vc)
                     /\ NumEq(GeomDim(geom, a), inN)

---------------------------------------------------------------------------
(* C4: for seqtype "epi" or "ge" (any case) the --slcthk argument of the  *)
(* pulse command is the recomputed voxel size of the selected slice axis, *)
(* whichever of x, y, z is selected.                                      *)

ArgIs(c, opt, v) ==
    \E j \in 1..Len(c) :
        /\ c[j] = opt
        /\ SubSeq(c, j + 1, j + Len(v) + 1) = v \o Sp

C4_SliceThickness ==
    (Returned /\ (\/ Spells(Get(params, "seqtype", Epi), Epi)
                  \/ Spells(Get(params, "seqtype", Epi), Ge))) =>
        \E i \in 1..Len(cmds) :
            /\ IsPulseGen(cmds[i])
            /\ ArgIs(cmds[i], " --slcthk=",
                     NumStr(GeomVoxel(geom, ClaimedAxis(params))))

---------------------------------------------------------------------------
(* C7: generation raises only on a malformed numeric string: whenever it  *)
(* raises, some present numeric parameter is not a well-formed number     *)
(* (so a sampling factor or an output voxel size of "0" raises nothing).  *)

GenerationRaised == pc = "failed" /\ err \in {"ValueError", "ZeroDivisionError"}

C7_FailsOnlyOnMalformed ==
    GenerationRaised =>
        \/ \E k \in FloatKeys :
              <<k>> \in DOMAIN params /\ ~FloatOk(params[<<k>>])
        \/ \E k \in IntKeys :
              <<k>> \in DOMAIN params /\ ~IntOk(params[<<k>>])

---------------------------------------------------------------------------
(* C8: the written script.  As claimed: the interpreter line followed by  *)
(* the commands, n + 1 lines with line i + 1 the i-th command.  As the    *)
(* code writes it: the interpreter line, one empty line, then the         *)
(* commands in order, one per line, each unaltered: n + 2 lines with line *)
(* i + 2 the i-th command.                                                 *)

\* the lines of a text: the pieces its "\n" end, and what follows the last
Lines(text) ==
    LET nl == {i \in 1..Len(text) : text[i] = "\n"}
        n == Cardinality(nl)
        At(k) == IF k = 0 THEN 0
                 ELSE CHOOSE i \in nl : Cardinality({j \in nl : j < i}) = k - 1
        rest == SubSeq(text, At(n) + 1, Len(text))
    IN  [k \in 1..n |-> SubSeq(text, At(k - 1) + 1, At(k) - 1)]
            \o (IF rest = <<>> THEN <<>> ELSE <<rest>>)

Directive == <<"#!/bin/sh">>

C8_ScriptIsDirectiveThenCommands ==
    pc = "done" =>
        /\ Len(Lines(script.text)) = Len(cmds) + 1
        /\ Lines(script.text) = <<Directive>> \o cmds

C8_ScriptIsDirectiveBlankThenCommands ==
    pc = "done" =>
        /\ script.exists
        /\ Len(Lines(script.text)) = Len(cmds) + 2
        /\ Lines(script.text)[1] = Directive
        /\ Lines(script.text)[2] = <<>>
        /\ \A i \in 1..Len(cmds) : Lines(script.text)[i + 2] = cmds[i]
        /\ Last(script.text) = "\n"

C8_Witness ==
    /\ pc = "done"
    /\ Len(cmds) >= 13
    /\ Len(Lines(script.text)) = Len(cmds) + 2

---------------------------------------------------------------------------
(* C10: the destination file is opened only after generate_shell_commands *)
(* has returned: while parsing and generating, and after a run that       *)
(* raised, the file is as it was before the run; a finished run has       *)
(* written the header and the complete command list of the parameters.    *)

RECURSIVE Flatten(_)
Flatten(cs) ==
    IF cs = <<>> THEN <<>> ELSE Head(cs) \o <<"\n">> \o Flatten(Tail(cs))

C10_NoWriteBeforeGeneration ==
    /\ pc \in {"parse", "generate", "open", "failed"} => script = script0
    /\ script # script0 =>
          /\ pc \in {"header", "write", "done"}
          /\ cmds = generate_shell_commands(params)
    /\ pc = "done" =>
          /\ cmds = generate_shell_commands(params)
          /\ script = [exists |-> TRUE,
                       text |-> <<"#!/bin/sh", "\n", "\n">> \o Flatten(cmds)]

C10_Witness ==
    /\ GenerationRaised
    /\ script0.text # <<>>
    /\ script = script0
===========================================================================
